---- MODULE Spec2Model ----
(***************************************************************************)
(* Browser session lifecycle and DOM extraction of the De Vinci Moodle     *)
(* scraper (scraper.py): the module globals, init_browser,                  *)
(* cleanup_browser, the two extraction pipelines of DeVinciScraper, the     *)
(* async facades and their blocking wrappers; and the stored credentials    *)
(* and the two tools of tools.py that call them.                            *)
(*                                                                          *)
(* Python values: a str is a sequence of tokens (a token is a piece of      *)
(* text that is never split), wrapped as Str(s); None is the value None.    *)
(* A DOM node that querySelector may not find is a set of at most one       *)
(* element.  Handles of Playwright objects are positive integers, 0 is the  *)
(* Python None of a module global.                                          *)
(*                                                                          *)
(* A step is the end of one awaited call with the statements that follow    *)
(* it up to the next await; the tests that open a function (the reuse test  *)
(* of init_browser, the ifs of cleanup_browser) are steps of their own.  A  *)
(* call made on a module global reads the global when the call is made;     *)
(* the handle it acts on is kept in tgt until the call ends.                *)
(***************************************************************************)
EXTENDS Naturals, Sequences, FiniteSets

\* ------------------------------------------------------------------ bounds
\* Most items a container holds in the extraction specification.
MaxItems == 2
\* Most top-level calls the serial caller makes.
MaxCalls == 2
\* Most top-level calls each of the two overlapping callers makes.
ConcCalls == 1
\* Most calls the caller of tools.py makes.
MaxToolCalls == 3
\* Most facade calls of the caller whose calls are followed to their end.
LiveCalls == 1
\* Most words of a thinking response of the agent.
MaxWords == 2

\* ------------------------------------------------------------ Python values
None == [kind |-> "None", text |-> <<>>]
Str(s) == [kind |-> "str", text |-> s]

\* str.join: the lines with the separator token between them.
RECURSIVE Join(_, _)
Join(sep, lines) ==
  IF lines = <<>> THEN <<>>
  ELSE IF Len(lines) = 1 THEN lines[1]
  ELSE lines[1] \o <<sep>> \o Join(sep, Tail(lines))

\* JavaScript String.prototype.trim on a token sequence: white space is the
\* token " ".
RECURSIVE TrimLeft(_)
TrimLeft(s) ==
  IF s # <<>> /\ Head(s) = " " THEN TrimLeft(Tail(s)) ELSE s

RECURSIVE TrimRight(_)
TrimRight(s) ==
  IF s # <<>> /\ s[Len(s)] = " " THEN TrimRight(SubSeq(s, 1, Len(s) - 1)) ELSE s

Trim(s) == TrimRight(TrimLeft(s))

\* JavaScript String.prototype.replace(word, ''): the first occurrence only.
RECURSIVE RemoveFirst(_, _)
RemoveFirst(s, word) ==
  IF s = <<>> THEN <<>>
  ELSE IF Head(s) = word THEN Tail(s)
  ELSE <<Head(s)>> \o RemoveFirst(Tail(s), word)

\* Tokens standing for text outside ASCII: the book and alarm-clock emoji
\* that open a display line, and the portal's French completion word.
BooksPrefix == "[books] "
ClockPrefix == "[clock] "
Termine == "termine"

\* ------------------------------------------------------------- sentinels
NoCoursesFound == <<"No courses found.">>
NoDeadlinesFound == <<"No deadlines found.">>
CredentialsRequired == <<"Please provide De Vinci credentials.">>
NotConnected == <<"Error: ", "Scraper not connected">>
\* f"Error: {e}"
ErrorString(e) == <<"Error: ">> \o e

\* ------------------------------------------------- the portal's markup
\* A div.course-summaryitem: col is whether it holds a .col-md-9 column; the
\* other fields are the nodes looked up inside that column.
NameTexts == {<<"Maths">>, <<" ", "Algo", " ">>}
CategoryTexts == {<<"L3">>, <<"N/A">>}
ProgressTexts == {<<"50%", " ", Termine>>}
BareItem == [col |-> FALSE, nameLink |-> {}, categoryname |-> {}, progress |-> {}]
CourseItems ==
  {BareItem} \cup
  [col : {TRUE},
   nameLink : {{}} \cup {{n} : n \in NameTexts},
   categoryname : {{}} \cup {{c} : c \in CategoryTexts},
   progress : {{}} \cup {{p} : p \in ProgressTexts}]

\* A .timeline-event-list-item: group is what the date lookup finds, "none"
\* (no enclosing .list-group), "first" (no previous sibling), "plain" (a
\* previous sibling without h5) or "dated" (a previous sibling with the h5
\* heading).
TitleTexts == {<<"TP", " ">>}
TimeTexts == {<<"23:59">>}
HeadingTexts == {<<" ", "Monday">>}
EventItems ==
  [nameLink : {{}} \cup {{n} : n \in TitleTexts},
   time : {{}} \cup {{x} : x \in TimeTexts},
   group : {"none", "first", "plain", "dated"},
   heading : HeadingTexts]

SeqsUpTo(S, n) == UNION {[1..k -> S] : k \in 0..n}

\* ----------------------------------------------- get_course_list, pure part
\* The element of a one-element set.
The(S) == CHOOSE x \in S : TRUE

\* The record the in-page script pushes for one item.
CourseRecord(item) ==
  [name |-> IF item.nameLink # {} THEN Trim(The(item.nameLink)) ELSE <<"Unknown">>,
   category |-> IF item.categoryname # {} THEN Trim(The(item.categoryname))
                ELSE <<"N/A">>,
   progress |-> IF item.progress # {}
                THEN Trim(RemoveFirst(The(item.progress), Termine))
                ELSE <<>>]

\* The in-page script of get_course_list: the records in document order; an
\* item without the .col-md-9 column is not pushed.
RECURSIVE CoursesScript(_)
CoursesScript(items) ==
  IF items = <<>> THEN <<>>
  ELSE (IF Head(items).col THEN <<CourseRecord(Head(items))>> ELSE <<>>)
       \o CoursesScript(Tail(items))

\* One display line of a course record.
CourseLineWithPlaceholder(data) ==
  <<BooksPrefix>> \o data.name \o <<" (">> \o data.category \o <<")">>
  \o (IF data.progress # <<>> THEN <<" - ">> \o data.progress ELSE <<>>)
CourseLine(data) ==
  <<BooksPrefix>> \o data.name
  \o (IF data.category # <<>> /\ data.category # <<"N/A">>
      THEN <<" (">> \o data.category \o <<")">> ELSE <<>>)
  \o (IF data.progress # <<>> THEN <<" - ">> \o data.progress ELSE <<>>)

CourseLines(records) == [i \in 1..Len(records) |-> CourseLine(records[i])]

\* "\n".join(courses) if courses else "No courses found."
FormatCoursesEmptyJoin(records) == Str(Join("\n", CourseLines(records)))
FormatCourses(records) ==
  IF CourseLines(records) # <<>>
  THEN Str(Join("\n", CourseLines(records)))
  ELSE Str(NoCoursesFound)

\* ------------------------------------------- get_timeline_events, pure part
EventRecordHeadingAlways(item) ==
  [date |-> Trim(item.heading),
   title |-> Trim(The(item.nameLink)),
   time |-> IF item.time # {} THEN Trim(The(item.time)) ELSE <<>>]
EventRecord(item) ==
  [date |-> IF item.group = "dated" THEN Trim(item.heading) ELSE <<"Unknown date">>,
   title |-> Trim(The(item.nameLink)),
   time |-> IF item.time # {} THEN Trim(The(item.time)) ELSE <<>>]

\* The in-page script of get_timeline_events: an item without the name link
\* is not pushed.
RECURSIVE TimelineScript(_)
TimelineScript(items) ==
  IF items = <<>> THEN <<>>
  ELSE (IF Head(items).nameLink # {} THEN <<EventRecord(Head(items))>> ELSE <<>>)
       \o TimelineScript(Tail(items))

EventLine(data) ==
  <<ClockPrefix>> \o data.date \o <<" ">> \o data.time \o <<" - ">> \o data.title

EventLines(records) == [i \in 1..Len(records) |-> EventLine(records[i])]

\* "\n".join(events) if events else "No deadlines found."
FormatEventsEmptyJoin(records) == Str(Join("\n", EventLines(records)))
FormatEvents(records) ==
  IF EventLines(records) # <<>>
  THEN Str(Join("\n", EventLines(records)))
  ELSE Str(NoDeadlinesFound)

\* bool(v) of a str or None.
Truthy(v) == v.kind = "str" /\ v.text # <<>>

\* The (email, password) pairs a caller passes: both given, neither given,
\* an empty email, no password.
CredPairs ==
  {<<Str(<<"login">>), Str(<<"secret">>)>>, <<None, None>>,
   <<Str(<<>>), Str(<<"secret">>)>>, <<Str(<<"login">>), None>>}

\* ------------------------------------------------------------------ state
VARIABLES
  _browser, _context, _page, _scraper, _playwright,  \* the module globals
  objs,   \* every object created so far; a handle is an index into it
  open,   \* handles of the Playwright processes, contexts and pages not closed
  task,   \* the callers: position, arguments, locals and what they observed
  _devinci_email, _devinci_password,  \* the module globals of tools.py
  lastSet \* the arguments of the last set_credentials call that returned

globals == <<_browser, _context, _page, _scraper, _playwright>>
tools == <<_devinci_email, _devinci_password, lastSet>>
vars == <<_browser, _context, _page, _scraper, _playwright, objs, open, task,
          _devinci_email, _devinci_password, lastSet>>

Tasks == {1, 2}

NoExc == [kind |-> "none", msg |-> <<>>]
Exc(m) == [kind |-> "Exception", msg |-> m]
\* An exception that is no Exception: asyncio.CancelledError, KeyboardInterrupt.
BaseExc == [kind |-> "BaseException", msg |-> <<"Cancelled">>]

FacadeOps == {"courses", "deadlines"}
SessionOps == {"init", "cleanup"}
ScraperOps == {"course_list", "timeline"}
\* force_summary_view called on the scraper by itself.
ViewOps == {"summary_view"}
\* The calls made on a scraper.
MethodOps == ScraperOps \cup ViewOps
\* The calls that take an e-mail and a password.
ArgOps == FacadeOps \cup {"init", "set_credentials"}
\* No answers of the page recorded.
NoAnswers == <<>>

\* A caller between two calls.  op is the call in progress, or the last one
\* made; prevOp and prevHandle are the call before it and what init_browser
\* returned then.  scraper is what init_browser returned in this call, result
\* the value the extraction produced, exc the exception in flight, ret and
\* raised what the call handed to its caller.  cleanups, closes and did record
\* what the call has done: the cleanup_browser runs, the close operations the
\* current cleanup_browser attempted, and the page operations performed; dom
\* is the content of the container the in-page script was evaluated on and
\* answers what the page answered to a force_summary_view called by itself;
\* caught is the Exception the handler of an extraction pipeline caught.
\* response, tool_calls and all_results are the locals of ReActAgent.invoke
\* (tool_calls is what is left of the list the loop goes over); ran is the
\* tools invoke has executed, in order, each with how it ended.
IdleTask ==
  [pc |-> "idle", op |-> "none", prevOp |-> "none", prevHandle |-> 0,
   email |-> None, password |-> None, calls |-> 0, tgt |-> 0, scraper |-> 0,
   result |-> None, exc |-> NoExc, ret |-> None, raised |-> "none",
   cleanups |-> 0, closes |-> <<>>, did |-> {}, fsv |-> "unset", dom |-> <<>>,
   answers |-> NoAnswers, caught |-> NoExc,
   response |-> <<>>, tool_calls |-> <<>>, all_results |-> <<>>, ran |-> <<>>]

\* Record a with the fields of b added or replaced.
Plus(a, b) == [k \in DOMAIN a \cup DOMAIN b |-> IF k \in DOMAIN b THEN b[k] ELSE a[k]]

Merge(r, s) == [k \in DOMAIN r |-> IF k \in DOMAIN s THEN s[k] ELSE r[k]]

\* Task t's record becomes its record with the fields of s.
Set(t, s) == task' = [task EXCEPT ![t] = Merge(@, s)]

NewId == Len(objs) + 1
Create(kind, of) == objs' = Append(objs, [kind |-> kind, of |-> of])

\* The contexts and pages that live inside h.
Inside(h) ==
  {i \in 1..Len(objs) :
     objs[i].kind \in {"context", "page"}
     /\ (objs[i].of = h \/ (objs[i].of # 0 /\ objs[objs[i].of].of = h))}

\* self.page of a scraper handle.
PageOf(s) == objs[s].of

\* How an awaited Playwright call on h may end: a call on a closed or stopped
\* object raises.
Outcomes(E, h) ==
  IF h \in open THEN {"ok"} \cup (IF E.faults THEN {"exc"} ELSE {}) ELSE {"closed"}
\* How a call that does not act on a page, context or process may end.
Plain(E) == {"ok"} \cup (IF E.faults THEN {"exc"} ELSE {})
\* An exception that is no Exception is thrown into the awaiting task.
Base(E) == IF E.faults THEN {"base"} ELSE {}
ExcOf(o) == IF o = "closed" THEN Exc(<<"TargetClosedError">>) ELSE Exc(<<"TimeoutError">>)

Init ==
  /\ _browser = 0 /\ _context = 0 /\ _page = 0 /\ _scraper = 0 /\ _playwright = 0
  /\ objs = <<>>
  /\ open = {}
  /\ task = [t \in Tasks |-> IdleTask]
  /\ _devinci_email = None /\ _devinci_password = None
  /\ lastSet = <<None, None>>

\* ------------------------------------------------------------ the callers
\* The first position of each operation.
Entry(op) ==
  CASE op \in FacadeOps -> "blk_enter"
    [] op = "init" -> "ib_check"
    [] op = "cleanup" -> "cl_enter"
    [] op = "course_list" -> "gc_enter"
    [] op = "timeline" -> "tl_enter"
    [] op = "summary_view" -> "fs_enter"
    [] op = "set_credentials" -> "sc_email"
    [] op = "invoke" -> "ag_think"

\* A caller makes its next call.  A scraper method is called on the scraper
\* the caller holds, the one init_browser last returned.
Call(t, E) ==
  /\ task[t].pc = "idle"
  /\ task[t].calls < E.limit
  /\ \E op \in E.ops, c \in E.creds :
       /\ op \in MethodOps => _scraper # 0
       /\ op \notin ArgOps => c = <<None, None>>
       /\ Set(t, [pc |-> Entry(op), op |-> op, prevOp |-> task[t].op,
                  prevHandle |-> IF task[t].op = "init" THEN task[t].scraper ELSE 0,
                  email |-> c[1], password |-> c[2], calls |-> task[t].calls + 1,
                  tgt |-> 0,
                  scraper |-> IF op \in MethodOps THEN _scraper ELSE 0,
                  result |-> None, exc |-> NoExc, ret |-> None,
                  raised |-> "none", cleanups |-> 0, closes |-> <<>>,
                  did |-> {}, fsv |-> "unset", dom |-> <<>>,
                  answers |-> NoAnswers, caught |-> NoExc,
                  response |-> <<>>, tool_calls |-> <<>>,
                  all_results |-> <<>>, ran |-> <<>>])
  /\ UNCHANGED <<globals, objs, open, tools>>

\* ------------------------------------------------------------ init_browser
\* What the caller of init_browser does with the value v it returns: the
\* facade returns the credentials sentinel through its finally block when v
\* is None, and calls the extraction on the scraper otherwise.
AfterInitNoFinally(t, v) ==
  IF task[t].op = "init" THEN [pc |-> "idle", scraper |-> v]
  ELSE IF v = 0
  THEN [pc |-> "blk_close", scraper |-> 0, result |-> Str(CredentialsRequired)]
  ELSE [pc |-> IF task[t].op = "courses" THEN "gc_enter" ELSE "tl_enter",
        scraper |-> v]
AfterInit(t, v) ==
  IF task[t].op = "init" THEN [pc |-> "idle", scraper |-> v]
  ELSE IF v = 0
  THEN [pc |-> "cl_enter", scraper |-> 0, result |-> Str(CredentialsRequired)]
  ELSE [pc |-> IF task[t].op = "courses" THEN "gc_enter" ELSE "tl_enter",
        scraper |-> v]

\* init_browser is left by an exception that is no Exception.
AfterInitRaise(t) ==
  IF task[t].op = "init" THEN [pc |-> "idle", raised |-> "BaseException"]
  ELSE [pc |-> "cl_enter", exc |-> BaseExc]

\* The handler of init_browser's outer try: the call returns None.
InitFailedRetries(t) == [pc |-> "ib_check"]
InitFailed(t) == AfterInit(t, 0)

Did(t, what) == [did |-> task[t].did \cup {what}]
DidAll(t, what) == [did |-> task[t].did \cup what]

\* if _scraper is not None: return _scraper
IbCheckNoReuse(t) == Set(t, Plus([pc |-> "ib_start"], Did(t, "init_browser")))
IbCheckBody(t) ==
  IF _scraper # 0
  THEN Set(t, Plus(AfterInit(t, _scraper), Did(t, "init_browser")))
  ELSE Set(t, Plus([pc |-> "ib_start"], Did(t, "init_browser")))

IbCheck(t, E) ==
  /\ task[t].pc = "ib_check"
  /\ IbCheckBody(t)
  /\ UNCHANGED <<globals, objs, open, tools>>

\* _playwright = await async_playwright().start()
IbStart(t, E) ==
  /\ task[t].pc = "ib_start"
  /\ \E o \in Plain(E) :
       IF o = "ok"
       THEN /\ Create("playwright", 0)
            /\ open' = open \cup {NewId}
            /\ _playwright' = NewId
            /\ Set(t, Plus([pc |-> "ib_launch", tgt |-> NewId], Did(t, "start")))
            /\ UNCHANGED <<_browser, _context, _page, _scraper, tools>>
       ELSE /\ Set(t, InitFailed(t))
            /\ UNCHANGED <<globals, objs, open, tools>>

\* _context = await _playwright.chromium.launch_persistent_context(...)
IbLaunch(t, E) ==
  /\ task[t].pc = "ib_launch"
  /\ \E o \in Outcomes(E, task[t].tgt) :
       IF o = "ok"
       THEN /\ Create("context", task[t].tgt)
            /\ open' = open \cup {NewId}
            /\ _context' = NewId
            /\ Set(t, Plus([pc |-> "ib_newpage", tgt |-> NewId], Did(t, "launch")))
            /\ UNCHANGED <<_browser, _page, _scraper, _playwright, tools>>
       ELSE /\ Set(t, InitFailed(t))
            /\ UNCHANGED <<globals, objs, open, tools>>

\* _page = await _context.new_page(), then asyncio.sleep(2) begins.
IbNewPage(t, E) ==
  /\ task[t].pc = "ib_newpage"
  /\ \E o \in Outcomes(E, task[t].tgt) :
       IF o = "ok"
       THEN /\ Create("page", task[t].tgt)
            /\ open' = open \cup {NewId}
            /\ _page' = NewId
            /\ Set(t, [pc |-> "ib_sleep", tgt |-> 0])
            /\ UNCHANGED <<_browser, _context, _scraper, _playwright, tools>>
       ELSE /\ Set(t, InitFailed(t))
            /\ UNCHANGED <<globals, objs, open, tools>>

\* The sleep ends and _page.goto(LOGIN_URL) is called on the global _page:
\* on None it raises AttributeError into the outer try.
IbSleep(t, E) ==
  /\ task[t].pc = "ib_sleep"
  /\ IF _page = 0
     THEN Set(t, InitFailed(t))
     ELSE Set(t, [pc |-> "ib_goto", tgt |-> _page])
  /\ UNCHANGED <<globals, objs, open, tools>>

\* The URL test and the credentials test that follow the navigation.  The
\* URL is the portal's answer: auth is whether it is the authenticated
\* landing page.  Reading _page.url of a None _page raises inside the inner
\* try, whose handler goes on to create the scraper.
AfterGotoBothMissing(t, auth) ==
  IF _page = 0 THEN Plus([pc |-> "ib_mk"], Did(t, "goto"))
  ELSE IF auth THEN Plus([pc |-> "ib_mk"], DidAll(t, {"goto", "url_my"}))
  ELSE IF ~Truthy(task[t].email) /\ ~Truthy(task[t].password)
  THEN Plus(AfterInit(t, 0), DidAll(t, {"goto", "url_login"}))
  ELSE Plus([pc |-> "ib_fill_email", tgt |-> _page],
            DidAll(t, {"goto", "url_login"}))
AfterGotoCredentialsFirst(t, auth) ==
  IF _page = 0 THEN Plus([pc |-> "ib_mk"], Did(t, "goto"))
  ELSE IF ~Truthy(task[t].email) \/ ~Truthy(task[t].password)
  THEN Plus(AfterInit(t, 0),
            DidAll(t, {"goto", IF auth THEN "url_my" ELSE "url_login"}))
  ELSE IF auth THEN Plus([pc |-> "ib_mk"], DidAll(t, {"goto", "url_my"}))
  ELSE Plus([pc |-> "ib_fill_email", tgt |-> _page],
            DidAll(t, {"goto", "url_login"}))
AfterGotoEmptyCounts(t, auth) ==
  IF _page = 0 THEN Plus([pc |-> "ib_mk"], Did(t, "goto"))
  ELSE IF auth THEN Plus([pc |-> "ib_mk"], DidAll(t, {"goto", "url_my"}))
  ELSE IF task[t].email.kind # "str" \/ task[t].password.kind # "str"
  THEN Plus(AfterInit(t, 0), DidAll(t, {"goto", "url_login"}))
  ELSE Plus([pc |-> "ib_fill_email", tgt |-> _page],
            DidAll(t, {"goto", "url_login"}))
AfterGoto(t, auth) ==
  IF _page = 0 THEN Plus([pc |-> "ib_mk"], Did(t, "goto"))
  ELSE IF auth THEN Plus([pc |-> "ib_mk"], DidAll(t, {"goto", "url_my"}))
  ELSE IF ~Truthy(task[t].email) \/ ~Truthy(task[t].password)
  THEN Plus(AfterInit(t, 0), DidAll(t, {"goto", "url_login"}))
  ELSE Plus([pc |-> "ib_fill_email", tgt |-> _page],
            DidAll(t, {"goto", "url_login"}))

\* await _page.goto(LOGIN_URL, timeout=30000)
IbGoto(t, E) ==
  /\ task[t].pc = "ib_goto"
  /\ \E o \in Outcomes(E, task[t].tgt) \cup Base(E) :
       CASE o = "ok" ->
              \E auth \in BOOLEAN :
                Set(t, AfterGoto(t, auth))
         [] o = "base" -> Set(t, AfterInitRaise(t))
         [] OTHER -> Set(t, InitFailed(t))
  /\ UNCHANGED <<globals, objs, open, tools>>

\* The login: fill the e-mail, fill the password, (sleep and) click submit,
\* wait for the network to be idle.  Each call is made on the global _page.
LoginSteps == <<"ib_fill_email", "ib_fill_password", "ib_click", "ib_networkidle">>
LoginIndex(pc) == CHOOSE i \in 1..Len(LoginSteps) : LoginSteps[i] = pc

\* The handler of the inner try: the error is printed and init_browser goes
\* on to create the scraper.
LoginFailedAborts(t) == Plus(AfterInit(t, 0), Did(t, "login_failed"))
LoginFailed(t) == Plus([pc |-> "ib_mk"], Did(t, "login_failed"))

IbLoginStep(t, E) ==
  /\ task[t].pc \in {LoginSteps[i] : i \in 1..Len(LoginSteps)}
  /\ \E o \in Outcomes(E, task[t].tgt) :
       IF o = "ok"
       THEN IF LoginIndex(task[t].pc) = Len(LoginSteps)
            THEN Set(t, Plus([pc |-> "ib_mk"], Did(t, task[t].pc)))
            ELSE IF _page = 0
            THEN Set(t, Plus(LoginFailed(t),
                             DidAll(t, {task[t].pc, "login_failed"})))
            ELSE Set(t, Plus([pc |-> LoginSteps[LoginIndex(task[t].pc) + 1],
                              tgt |-> _page], Did(t, task[t].pc)))
       ELSE Set(t, LoginFailed(t))
  /\ UNCHANGED <<globals, objs, open, tools>>

\* _scraper = DeVinciScraper(_page); return _scraper
IbMk(t, E) ==
  /\ task[t].pc = "ib_mk"
  /\ Create("scraper", _page)
  /\ _scraper' = NewId
  /\ Set(t, AfterInit(t, NewId))
  /\ UNCHANGED <<_browser, _context, _page, _playwright, open, tools>>

InitBrowser(t, E) ==
  \/ IbCheck(t, E) \/ IbStart(t, E) \/ IbLaunch(t, E) \/ IbNewPage(t, E) \/ IbSleep(t, E)
  \/ IbGoto(t, E) \/ IbLoginStep(t, E) \/ IbMk(t, E)

\* --------------------------------------------------------- cleanup_browser
\* What follows cleanup_browser: a direct caller gets the exception in
\* flight, if any; the facade's finally block is over and the coroutine ends.
AfterCleanup(t) ==
  IF task[t].op = "cleanup"
  THEN [pc |-> "idle", raised |-> task[t].exc.kind]
  ELSE [pc |-> "blk_close"]

ClEnter(t, E) ==
  /\ task[t].pc = "cl_enter"
  /\ Set(t, [pc |-> "cl_if_page", cleanups |-> task[t].cleanups + 1,
             closes |-> <<>>])
  /\ UNCHANGED <<globals, objs, open, tools>>

\* if _page: / if _context: / if _playwright: and the call of close() or
\* stop() on the handle.  IfLabels[k + 1] is where the k-th statement leaves
\* to.
IfLabels == <<"cl_if_page", "cl_if_context", "cl_if_playwright", "cl_finally">>
CloseLabels == <<"cl_page", "cl_context", "cl_stop">>
CloseNames == <<"page", "context", "stop">>
Handle(k) == <<_page, _context, _playwright>>[k]

ClTestUnguarded(t, k) ==
  Set(t, [pc |-> CloseLabels[k], tgt |-> Handle(k),
          closes |-> Append(task[t].closes, CloseNames[k])])
ClTest(t, k) ==
  IF Handle(k) # 0
  THEN Set(t, [pc |-> CloseLabels[k], tgt |-> Handle(k),
               closes |-> Append(task[t].closes, CloseNames[k])])
  ELSE Set(t, [pc |-> IfLabels[k + 1]])

ClIf(t, E) ==
  /\ \E k \in 1..3 :
       /\ task[t].pc = IfLabels[k]
       /\ ClTest(t, k)
  /\ UNCHANGED <<globals, objs, open, tools>>

\* The handler of cleanup_browser's try: the error is logged; the statements
\* that were still to run in the try block are skipped.
CloseFailedRaises(t, k) ==
  [pc |-> "cl_finally", exc |-> Exc(<<"TargetClosedError">>)]
CloseFailed(t, k) == [pc |-> "cl_finally"]

\* await _page.close() / _context.close() / _playwright.stop() ends.  Closing
\* a context closes its pages, stopping the process closes all it holds.
ClClose(t, E) ==
  \E k \in 1..3 :
    /\ task[t].pc = CloseLabels[k]
    /\ \E o \in Plain(E) :
         IF o = "ok"
         THEN /\ open' = open \ ({task[t].tgt} \cup Inside(task[t].tgt))
              /\ Set(t, [pc |-> IfLabels[k + 1]])
         ELSE /\ open' = open
              /\ Set(t, CloseFailed(t, k))
    /\ UNCHANGED <<globals, objs, tools>>

\* finally: the five globals are set to None.
ClearNothing == UNCHANGED globals
ClearGlobals ==
  /\ _browser' = 0 /\ _context' = 0 /\ _page' = 0 /\ _scraper' = 0
  /\ _playwright' = 0

ClFinally(t, E) ==
  /\ task[t].pc = "cl_finally"
  /\ ClearGlobals
  /\ Set(t, AfterCleanup(t))
  /\ UNCHANGED <<objs, open, tools>>

CleanupBrowser(t, E) == ClEnter(t, E) \/ ClIf(t, E) \/ ClClose(t, E) \/ ClFinally(t, E)

\* ------------------------------------------------------- force_summary_view
\* What the page answers to force_summary_view: the two waits for the
\* container, the data-display attribute read before and after the switch,
\* how many elements the primary, the secondary and the summary-option
\* selectors match, and whether each click succeeds.
FsvInputs ==
  [wait1 : {"ok", "exc"}, display1 : {"summary", "card"},
   primary : {0, 1}, secondary : {0, 1}, click : {"ok", "exc"},
   option : {0, 1}, optionClick : {"ok", "exc"},
   wait2 : {"ok", "exc"}, display2 : {"summary", "card"}]

\* The value force_summary_view returns on a scraper whose self.page is page.
ForceSummaryViewUnverified(page, i) ==
  IF page = 0 THEN FALSE
  ELSE IF i.wait1 # "ok" THEN FALSE
  ELSE IF i.display1 = "summary" THEN TRUE
  ELSE IF (IF i.primary = 0 THEN i.secondary = 0 ELSE FALSE) \/ i.click # "ok"
  THEN FALSE
  ELSE IF i.option > 0
  THEN IF i.optionClick # "ok" \/ i.wait2 # "ok" THEN FALSE
       ELSE TRUE
  ELSE FALSE
ForceSummaryView(page, i) ==
  IF page = 0 THEN FALSE
  ELSE IF i.wait1 # "ok" THEN FALSE
  ELSE IF i.display1 = "summary" THEN TRUE
  ELSE IF (IF i.primary = 0 THEN i.secondary = 0 ELSE FALSE) \/ i.click # "ok"
  THEN FALSE
  ELSE IF i.option > 0
  THEN IF i.optionClick # "ok" \/ i.wait2 # "ok" THEN FALSE
       ELSE i.display2 = "summary"
  ELSE FALSE

\* The calls force_summary_view makes on the page, in the order it makes
\* them, each with what the page answered.  A click on a locator that
\* matches no element times out.
Op(call, on, got) == [call |-> call, on |-> on, got |-> got]
CountText(n) == IF n = 0 THEN "0" ELSE "1"
ToggleAlwaysSecondary(i) == "secondary"
Toggle(i) == IF i.primary = 0 THEN "secondary" ELSE "primary"
ToggleClick(i) == IF i.primary = 0 /\ i.secondary = 0 THEN "exc" ELSE i.click

FsvReread(i) ==
  <<Op("click", "summary_option", i.optionClick)>>
  \o (IF i.optionClick # "ok" THEN <<>>
      ELSE <<Op("wait_for", "courses_view", i.wait2)>>
           \o (IF i.wait2 # "ok" THEN <<>>
               ELSE <<Op("get_attribute", "courses_view", i.display2)>>))

FsvSwitch(i) ==
  <<Op("count", "primary", CountText(i.primary)),
    Op("click", Toggle(i), ToggleClick(i))>>
  \o (IF ToggleClick(i) # "ok" THEN <<>>
      ELSE <<Op("sleep", "menu", "ok"),
             Op("count", "summary_option", CountText(i.option))>>
           \o (IF i.option > 0 THEN FsvReread(i) ELSE <<>>))

FsvTrace(page, i) ==
  IF page = 0 THEN <<>>
  ELSE <<Op("wait_for", "courses_view", i.wait1)>>
       \o (IF i.wait1 # "ok" THEN <<>>
           ELSE <<Op("get_attribute", "courses_view", i.display1)>>
                \o (IF i.display1 = "summary" THEN <<>> ELSE FsvSwitch(i)))

\* The answers a page may give to the scraper of t: a closed page fails the
\* first wait, and calls on a live page fail only in an environment with
\* faults.
FsvAnswers(t, E) ==
  {i \in FsvInputs :
     /\ PageOf(task[t].scraper) \notin open => i.wait1 = "exc"
     /\ PageOf(task[t].scraper) \in open /\ ~E.faults =>
          "exc" \notin {i.wait1, i.click, i.optionClick, i.wait2}}

\* force_summary_view called by itself: the call returns its boolean.
SummaryView(t, E) ==
  /\ task[t].pc = "fs_enter"
  /\ \E i \in FsvAnswers(t, E) :
       Set(t, [pc |-> "idle", answers |-> i,
               fsv |-> IF ForceSummaryView(PageOf(task[t].scraper), i)
                       THEN "True" ELSE "False"])
  /\ UNCHANGED <<globals, objs, open, tools>>

\* ------------------------------------------- the two extraction pipelines
\* What the caller of an extraction does with the value it returns: the
\* facade leaves through its finally block.
AfterExtractNoFinally(t, v) ==
  IF task[t].op \in ScraperOps THEN [pc |-> "idle", ret |-> v]
  ELSE [pc |-> "blk_close", result |-> v, fsv |-> "unset"]
AfterExtract(t, v) ==
  IF task[t].op \in ScraperOps THEN [pc |-> "idle", ret |-> v]
  ELSE [pc |-> "cl_enter", result |-> v, fsv |-> "unset"]

\* The extraction is left by an exception that is no Exception.
AfterExtractRaise(t) ==
  IF task[t].op \in ScraperOps
  THEN [pc |-> "idle", raised |-> "BaseException"]
  ELSE [pc |-> "cl_enter", exc |-> BaseExc, fsv |-> "unset"]

\* except Exception as e: return f"Error: {e}"
PipelineErrorNone(e) == None
PipelineErrorNoMessage(e) == Str(<<"Error: ">>)
PipelineError(e) == Str(ErrorString(e.msg))

\* The handler of a pipeline's try caught e: the extraction returns the error
\* string.
Caught(t, e) == Plus(AfterExtract(t, PipelineError(e)), [caught |-> e])

\* if not self.page: return "Error: Scraper not connected"
ExEnterClearsScraper(t, E) ==
  /\ task[t].pc \in {"gc_enter", "tl_enter"}
  /\ Set(t, Plus([pc |-> IF task[t].pc = "gc_enter" THEN "gc_overview"
                         ELSE "tl_section"], Did(t, "extract")))
  /\ _scraper' = 0
  /\ UNCHANGED <<_browser, _context, _page, _playwright, objs, open, tools>>
ExEnter(t, E) ==
  /\ task[t].pc \in {"gc_enter", "tl_enter"}
  /\ IF PageOf(task[t].scraper) = 0
     THEN Set(t, Plus(AfterExtract(t, Str(NotConnected)), Did(t, "extract")))
     ELSE Set(t, Plus([pc |-> IF task[t].pc = "gc_enter" THEN "gc_overview"
                              ELSE "tl_section"], Did(t, "extract")))
  /\ UNCHANGED <<globals, objs, open, tools>>

\* The waits for a section or a container to be visible.
WaitNext(pc) ==
  CASE pc = "gc_overview" -> "gc_fsv"
    [] pc = "gc_container" -> "gc_loader"
    [] pc = "tl_section" -> "tl_container"
    [] pc = "tl_container" -> "tl_loader"

ExWait(t, E) ==
  /\ task[t].pc \in {"gc_overview", "gc_container", "tl_section", "tl_container"}
  /\ \E o \in Outcomes(E, PageOf(task[t].scraper)) \cup Base(E) :
       CASE o = "ok" -> Set(t, [pc |-> WaitNext(task[t].pc)])
         [] o = "base" -> Set(t, AfterExtractRaise(t))
         [] OTHER -> Set(t, Caught(t, ExcOf(o)))
  /\ UNCHANGED <<globals, objs, open, tools>>

\* await self.force_summary_view(): its value is not used.
GcFsvAbortsOnFalse(t, E) ==
  /\ task[t].pc = "gc_fsv"
  /\ \E i \in FsvInputs :
       /\ PageOf(task[t].scraper) \notin open => i.wait1 = "exc"
       /\ PageOf(task[t].scraper) \in open /\ ~E.faults =>
            "exc" \notin {i.wait1, i.click, i.optionClick, i.wait2}
       /\ IF ForceSummaryView(PageOf(task[t].scraper), i)
          THEN Set(t, [pc |-> "gc_container", fsv |-> "True"])
          ELSE Set(t, Plus(AfterExtract(t, Str(NoCoursesFound)),
                           [fsv |-> "False"]))
  /\ UNCHANGED <<globals, objs, open, tools>>
GcFsv(t, E) ==
  /\ task[t].pc = "gc_fsv"
  /\ \E i \in FsvInputs :
       /\ PageOf(task[t].scraper) \notin open => i.wait1 = "exc"
       /\ PageOf(task[t].scraper) \in open /\ ~E.faults =>
            "exc" \notin {i.wait1, i.click, i.optionClick, i.wait2}
       /\ Set(t, [pc |-> "gc_container",
                  fsv |-> IF ForceSummaryView(PageOf(task[t].scraper), i)
                          THEN "True" ELSE "False"])
  /\ UNCHANGED <<globals, objs, open, tools>>

\* The wait for the loading animation to go, in its own try: an Exception
\* is passed over.
GcLoader(t, E) ==
  /\ task[t].pc = "gc_loader"
  /\ \E o \in Outcomes(E, PageOf(task[t].scraper)) \cup Base(E) :
       IF o = "base" THEN Set(t, AfterExtractRaise(t))
       ELSE Set(t, [pc |-> "gc_evaluate"])
  /\ UNCHANGED <<globals, objs, open, tools>>

\* courses_container.evaluate(script) and the formatting of its records.
GcEvaluate(t, E) ==
  /\ task[t].pc = "gc_evaluate"
  /\ \E o \in Outcomes(E, PageOf(task[t].scraper)) \cup Base(E) :
       CASE o = "ok" ->
              \E dom \in E.courseDoms :
                Set(t, Plus(AfterExtract(t, FormatCourses(CoursesScript(dom))),
                            Plus(Did(t, "evaluate"), [dom |-> dom])))
         [] o = "base" -> Set(t, AfterExtractRaise(t))
         [] OTHER -> Set(t, Caught(t, ExcOf(o)))
  /\ UNCHANGED <<globals, objs, open, tools>>

\* The loading placeholder of the timeline: when loader.count() > 0 the wait
\* for it to be hidden is inside the pipeline's try, so its timeout ends the
\* extraction; otherwise a fixed sleep.
TlLoader(t, E) ==
  /\ task[t].pc = "tl_loader"
  /\ \E count \in {0, 1}, o \in Outcomes(E, PageOf(task[t].scraper)) \cup Base(E) :
       CASE o = "base" -> Set(t, AfterExtractRaise(t))
         [] o = "closed" -> Set(t, Caught(t, ExcOf(o)))
         [] o = "exc" /\ count > 0 ->
              Set(t, Caught(t, ExcOf(o)))
         [] OTHER -> Set(t, [pc |-> "tl_evaluate"])
  /\ UNCHANGED <<globals, objs, open, tools>>

\* container.evaluate(script) and the formatting of its records.
TlEvaluate(t, E) ==
  /\ task[t].pc = "tl_evaluate"
  /\ \E o \in Outcomes(E, PageOf(task[t].scraper)) \cup Base(E) :
       CASE o = "ok" ->
              \E dom \in E.eventDoms :
                Set(t, Plus(AfterExtract(t, FormatEvents(TimelineScript(dom))),
                            Plus(Did(t, "evaluate"), [dom |-> dom])))
         [] o = "base" -> Set(t, AfterExtractRaise(t))
         [] OTHER -> Set(t, Caught(t, ExcOf(o)))
  /\ UNCHANGED <<globals, objs, open, tools>>

Extraction(t, E) ==
  \/ ExEnter(t, E) \/ ExWait(t, E) \/ GcFsv(t, E) \/ GcLoader(t, E) \/ GcEvaluate(t, E)
  \/ TlLoader(t, E) \/ TlEvaluate(t, E)

\* -------------------------------- get_courses_blocking, get_deadlines_blocking
\* The handlers of the blocking wrapper: return f"Error: {e}".
WrapperError(e) == [ret |-> Str(ErrorString(e.msg)), raised |-> "none"]

\* asyncio.new_event_loop(); asyncio.set_event_loop(loop)
BlkEnter(t, E) ==
  /\ task[t].pc = "blk_enter"
  /\ \E o \in Plain(E) :
       IF o = "ok" THEN Set(t, [pc |-> "ib_check"])
       ELSE Set(t, Plus([pc |-> "idle"], WrapperError(Exc(<<"RuntimeError">>))))
  /\ UNCHANGED <<globals, objs, open, tools>>

\* run_until_complete hands over what the coroutine returned or raised, then
\* finally: loop.close().  An exception raised by loop.close() replaces the one
\* in flight and reaches the outer handler.
BlkClose(t, E) ==
  /\ task[t].pc = "blk_close"
  /\ \E o \in Plain(E) :
       CASE o = "exc" ->
              Set(t, Plus([pc |-> "idle"], WrapperError(Exc(<<"RuntimeError">>))))
         [] o = "ok" /\ task[t].exc.kind = "Exception" ->
              Set(t, Plus([pc |-> "idle"], WrapperError(task[t].exc)))
         [] o = "ok" /\ task[t].exc.kind = "BaseException" ->
              Set(t, [pc |-> "idle", raised |-> "BaseException"])
         [] OTHER -> Set(t, [pc |-> "idle", ret |-> task[t].result])
  /\ UNCHANGED <<globals, objs, open, tools>>

Blocking(t, E) == BlkEnter(t, E) \/ BlkClose(t, E)

\* ---------------------------------------------------------------- tools.py
\* The tools get_courses and get_deadlines: the blocking facade is called
\* with the stored credentials.
ToolCallAnyCredentials(t, E) == Call(t, Plus(E, [ops |-> FacadeOps]))
ToolCall(t, E) ==
  Call(t, Plus(E, [ops |-> FacadeOps,
                   creds |-> {<<_devinci_email, _devinci_password>>}]))

\* set_credentials(email, password) is called.
SetCall(t, E) == Call(t, Plus(E, [ops |-> {"set_credentials"}]))

\* _devinci_email = email
ScEmail(t, E) ==
  /\ task[t].pc = "sc_email"
  /\ _devinci_email' = task[t].email
  /\ Set(t, [pc |-> "sc_password"])
  /\ UNCHANGED <<globals, objs, open, _devinci_password, lastSet>>

\* _devinci_password = password, and the call returns.
ScPassword(t, E) ==
  /\ task[t].pc = "sc_password"
  /\ _devinci_password' = task[t].password
  /\ lastSet' = <<task[t].email, task[t].password>>
  /\ Set(t, [pc |-> "idle"])
  /\ UNCHANGED <<globals, objs, open, _devinci_email>>

SetCredentials(t, E) == ScEmail(t, E) \/ ScPassword(t, E)

\* ---------------------------------------------------------------- agent.py
\* A thinking response is a sequence of words.  Substrings(w) is the tool
\* names and keywords that occur in the word w as written, Lower(w) is
\* w.lower().
Words == {"get_courses", "get_deadlines", "GET_COURSES", "Deadline", "course",
          "hello"}
Substrings(w) ==
  CASE w = "get_courses" -> {"get_courses", "cours", "course"}
    [] w = "get_deadlines" -> {"get_deadlines", "deadline"}
    [] w = "deadline" -> {"deadline"}
    [] w = "course" -> {"cours", "course"}
    [] OTHER -> {}
Lower(w) ==
  CASE w = "GET_COURSES" -> "get_courses"
    [] w = "Deadline" -> "deadline"
    [] OTHER -> w
LowerAll(response) == [k \in 1..Len(response) |-> Lower(response[k])]

\* word in response
In(word, response) ==
  \E k \in 1..Len(response) : word \in Substrings(response[k])
\* any(word in response for word in words)
AnyIn(words, response) == \E word \in words : In(word, response)

DeadlineKeywords == {"deadline", "devoir", "assignment", "due"}
CourseKeywords == {"cours", "course", "subject", "class"}

\* The tool names _extract_tool_calls returns, in order.
Explicit(response) ==
  (IF In("get_courses", response) THEN <<"get_courses">> ELSE <<>>)
  \o (IF In("get_deadlines", response) THEN <<"get_deadlines">> ELSE <<>>)
Inferred(response) ==
  IF AnyIn(DeadlineKeywords, LowerAll(response)) THEN <<"get_deadlines">>
  ELSE IF AnyIn(CourseKeywords, LowerAll(response)) THEN <<"get_courses">>
  ELSE <<>>
ExtractToolCallsAlwaysInfers(response) == Explicit(response) \o Inferred(response)
ExtractToolCalls(response) ==
  IF Explicit(response) # <<>> THEN Explicit(response) ELSE Inferred(response)

\* self.tools: the names of tools.TOOLS.
AgentTools == {"get_courses", "get_deadlines"}
\* What a tool may return.
ToolResults(name) ==
  IF name = "get_courses" THEN {Str(NoCoursesFound), Str(CredentialsRequired)}
  ELSE {Str(NoDeadlinesFound), Str(CredentialsRequired)}
\* f"Error executing tool: {e}"
ToolError(e) == Str(<<"Error executing tool: ">> \o e.msg)
\* all_results[name] = v
Put(r, name, v) ==
  [k \in DOMAIN r \cup {name} |-> IF k = name THEN v ELSE r[k]]

\* thinking_response = self.llm.invoke(...); tool_calls =
\* self._extract_tool_calls(thinking_response).  An Exception of the model
\* leaves invoke.
AgThink(t, E) ==
  /\ task[t].pc = "ag_think"
  /\ \E o \in Plain(E) :
       IF o = "ok"
       THEN \E r \in E.responses :
              Set(t, [pc |-> "ag_tools", response |-> r,
                      tool_calls |-> ExtractToolCalls(r)])
       ELSE Set(t, Plus([pc |-> "idle", raised |-> "Exception"],
                        Did(t, "llm_failed")))
  /\ UNCHANGED <<globals, objs, open, tools>>

\* One round of the loop over tool_calls: the tool is called when it is one
\* of self.tools, and its result, or the error string of the Exception it
\* raised, is stored under its name.
AgTool(t, E) ==
  /\ task[t].pc = "ag_tools" /\ task[t].tool_calls # <<>>
  /\ LET name == Head(task[t].tool_calls) IN
       IF name \notin AgentTools
       THEN Set(t, [tool_calls |-> Tail(task[t].tool_calls)])
       ELSE \E o \in Plain(E) :
              IF o = "ok"
              THEN \E v \in ToolResults(name) :
                     Set(t, [tool_calls |-> Tail(task[t].tool_calls),
                             all_results |-> Put(task[t].all_results, name, v),
                             ran |-> Append(task[t].ran, <<name, "ok">>)])
              ELSE Set(t, [tool_calls |-> Tail(task[t].tool_calls),
                           all_results |-> Put(task[t].all_results, name,
                                               ToolError(ExcOf(o))),
                           ran |-> Append(task[t].ran, <<name, "exc">>)])
  /\ UNCHANGED <<globals, objs, open, tools>>

\* final_response = self.llm.invoke(final_prompt); return final_response
AgFinal(t, E) ==
  /\ task[t].pc = "ag_tools" /\ task[t].tool_calls = <<>>
  /\ \E o \in Plain(E) :
       IF o = "ok"
       THEN Set(t, [pc |-> "idle", ret |-> Str(<<"final response">>)])
       ELSE Set(t, Plus([pc |-> "idle", raised |-> "Exception"],
                        Did(t, "llm_failed")))
  /\ UNCHANGED <<globals, objs, open, tools>>

Invoke(t, E) == AgThink(t, E) \/ AgTool(t, E) \/ AgFinal(t, E)

\* ------------------------------------------------------- specifications
\* What the portal shows in the session specifications.
SessionCourseDoms == {<<>>, <<BareItem>>,
                      <<[col |-> TRUE, nameLink |-> {<<"Maths">>},
                         categoryname |-> {<<"L3">>}, progress |-> {}]>>}
SessionEventDoms == {<<>>,
                     <<[nameLink |-> {<<"TP", " ">>}, time |-> {},
                        group |-> "dated", heading |-> <<" ", "Monday">>]>>}

\* The actions of caller t in environment E: the operations it calls and how
\* many calls it makes, the credentials it passes, what the portal shows, and
\* whether calls on live objects may fail.
Step(t, E) ==
  \/ Call(t, E)
  \/ Blocking(t, E)
  \/ InitBrowser(t, E)
  \/ Extraction(t, E)
  \/ CleanupBrowser(t, E)

\* One caller, its calls one after the other: the facades, init_browser and
\* cleanup_browser called directly, and the scraper's methods.
Serial ==
  [ops |-> FacadeOps \cup SessionOps \cup ScraperOps, limit |-> MaxCalls,
   creds |-> CredPairs, courseDoms |-> SessionCourseDoms,
   eventDoms |-> SessionEventDoms, faults |-> TRUE]
Next == Step(1, Serial)
Spec == Init /\ [][Next]_vars

\* Two callers whose facade calls overlap, the first asking for the courses
\* and the second for the deadlines, on a portal and a browser that answer
\* every call made on a live object.
Overlapping(t) ==
  [ops |-> IF t = 1 THEN {"courses"} ELSE {"deadlines"}, limit |-> ConcCalls,
   creds |-> {<<Str(<<"login">>), Str(<<"secret">>)>>, <<None, None>>},
   courseDoms |-> {<<BareItem>>}, eventDoms |-> {<<>>}, faults |-> FALSE]
NextConc == \E t \in Tasks : Step(t, Overlapping(t))
SpecConc == Init /\ [][NextConc]_vars

\* The scraper's two extraction methods called on a live session, on every
\* container content of at most MaxItems items.  The initial state is the
\* one init_browser leaves when the portal shows the authenticated landing
\* page.
InitExtract ==
  /\ _browser = 0 /\ _playwright = 1 /\ _context = 2 /\ _page = 3 /\ _scraper = 4
  /\ objs = <<[kind |-> "playwright", of |-> 0], [kind |-> "context", of |-> 1],
              [kind |-> "page", of |-> 2], [kind |-> "scraper", of |-> 3]>>
  /\ open = {1, 2, 3}
  /\ task = [t \in Tasks |->
               IF t = 1
               THEN Merge(IdleTask,
                          [op |-> "init", calls |-> 1, tgt |-> 3, scraper |-> 4,
                           did |-> {"init_browser", "start", "launch", "goto",
                                    "url_my"}])
               ELSE IdleTask]
  /\ _devinci_email = None /\ _devinci_password = None
  /\ lastSet = <<None, None>>
Extracting ==
  [ops |-> ScraperOps, limit |-> MaxCalls, creds |-> {<<None, None>>},
   courseDoms |-> SeqsUpTo(CourseItems, MaxItems),
   eventDoms |-> SeqsUpTo(EventItems, MaxItems), faults |-> TRUE]
NextExtract == Call(1, Extracting) \/ Extraction(1, Extracting)
SpecExtract == InitExtract /\ [][NextExtract]_vars

\* force_summary_view called by itself on the scraper of a live session, on
\* every combination of answers of the page.
Switching ==
  [ops |-> ViewOps, limit |-> MaxCalls, creds |-> {<<None, None>>},
   courseDoms |-> {<<>>}, eventDoms |-> {<<>>}, faults |-> TRUE]
NextView == Call(1, Switching) \/ SummaryView(1, Switching)
SpecView == InitExtract /\ [][NextView]_vars

\* One caller that only calls the blocking facades, one call after the
\* other.
Requests ==
  [ops |-> FacadeOps, limit |-> MaxCalls, creds |-> CredPairs,
   courseDoms |-> SessionCourseDoms, eventDoms |-> SessionEventDoms,
   faults |-> TRUE]
NextFacade == Step(1, Requests)
SpecFacade == Init /\ [][NextFacade]_vars

\* One caller of tools.py: set_credentials and the two tools, one call after
\* the other, on a browser and a portal that may fail.
Tooling ==
  [ops |-> FacadeOps \cup {"set_credentials"}, limit |-> MaxToolCalls,
   creds |-> {<<Str(<<"login">>), Str(<<"secret">>)>>, <<None, None>>},
   courseDoms |-> {<<BareItem>>}, eventDoms |-> {<<>>}, faults |-> TRUE]
NextTools ==
  \/ ToolCall(1, Tooling)
  \/ SetCall(1, Tooling)
  \/ SetCredentials(1, Tooling)
  \/ Blocking(1, Tooling)
  \/ InitBrowser(1, Tooling)
  \/ Extraction(1, Tooling)
  \/ CleanupBrowser(1, Tooling)
SpecTools == Init /\ [][NextTools]_vars

\* One caller of the blocking facades on a browser and a portal that answer
\* every call, with success or with a failure: a call in progress takes its
\* next step.
Answering ==
  [ops |-> FacadeOps, limit |-> LiveCalls, creds |-> CredPairs,
   courseDoms |-> SessionCourseDoms, eventDoms |-> SessionEventDoms,
   faults |-> TRUE]
Progress(t, E) ==
  Blocking(t, E) \/ InitBrowser(t, E) \/ Extraction(t, E) \/ CleanupBrowser(t, E)
NextLive == Step(1, Answering)
SpecLive == Init /\ [][NextLive]_vars /\ WF_vars(Progress(1, Answering))

\* One caller of ReActAgent.invoke, on every thinking response of at most
\* MaxWords words, with tools and a language model that may fail.
Invoking ==
  [ops |-> {"invoke"}, limit |-> MaxCalls, creds |-> {<<None, None>>},
   courseDoms |-> {<<>>}, eventDoms |-> {<<>>}, faults |-> TRUE,
   responses |-> SeqsUpTo(Words, MaxWords)]
NextAgent == Call(1, Invoking) \/ Invoke(1, Invoking)
SpecAgent == Init /\ [][NextAgent]_vars

\* ------------------------------------------------------------- properties
Idle(t) == task[t].pc = "idle"
\* The facade coroutine of t has ended and run_until_complete is about to
\* hand what it returned or raised to the blocking wrapper.
Ended(t) == task[t].op \in FacadeOps /\ task[t].pc = "blk_close"
\* The positions inside init_browser and inside the extraction.
InInit(t) ==
  task[t].pc \in {"ib_check", "ib_start", "ib_launch", "ib_newpage", "ib_sleep",
                  "ib_goto", "ib_mk"} \cup {LoginSteps[i] : i \in 1..Len(LoginSteps)}
InExtraction(t) ==
  task[t].pc \in {"gc_enter", "gc_overview", "gc_fsv", "gc_container", "gc_loader",
                  "gc_evaluate", "tl_enter", "tl_section", "tl_container",
                  "tl_loader", "tl_evaluate"}
CredentialsMissing(t) == ~Truthy(task[t].email) \/ ~Truthy(task[t].password)
AllCleared ==
  _browser = 0 /\ _context = 0 /\ _page = 0 /\ _scraper = 0 /\ _playwright = 0
SeqToSet(q) == {q[i] : i \in 1..Len(q)}

\* C1: in every run of a facade that entered init_browser, cleanup_browser
\* has not run while init_browser or the extraction is in progress, and has
\* run exactly once when the coroutine ends and when the call has returned,
\* whether the extraction returned, was skipped for missing credentials, or
\* raised.
C1_CleanupExactlyOnce ==
  \A t \in Tasks :
    task[t].op \in FacadeOps /\ "init_browser" \in task[t].did =>
      /\ task[t].cleanups <= 1
      /\ InInit(t) \/ InExtraction(t) => task[t].cleanups = 0
      /\ Ended(t) \/ Idle(t) => task[t].cleanups = 1

\* A facade whose extraction raised has run cleanup_browser once and has
\* handed the exception on.
C1_Witness ==
  /\ task[1].op \in FacadeOps /\ Idle(1)
  /\ task[1].raised = "BaseException" /\ "extract" \in task[1].did
  /\ task[1].cleanups = 1

\* The strings a blocking facade may return.
IsFacadeString(v) ==
  /\ v.kind = "str"
  /\ v.text # <<>>
  /\ \/ v.text \in {NoCoursesFound, NoDeadlinesFound, CredentialsRequired}
     \/ Head(v.text) \in {"Error: ", BooksPrefix, ClockPrefix}

\* C2: when no step fails with anything but an Exception, a blocking facade
\* call raises nothing and returns one string: data, an empty-result
\* sentinel, the credentials sentinel or an "Error: " string.
C2_BlockingNeverRaises ==
  \A t \in Tasks :
    task[t].op \in FacadeOps /\ Idle(t) /\ task[t].exc.kind # "BaseException" =>
      task[t].raised = "none" /\ IsFacadeString(task[t].ret)

\* A blocking facade returned an error string for an extraction that failed
\* on a launched browser.
C2_Witness ==
  /\ task[1].op \in FacadeOps /\ Idle(1)
  /\ "extract" \in task[1].did /\ "evaluate" \notin task[1].did
  /\ task[1].ret = Str(ErrorString(<<"TimeoutError">>))

\* C3: a facade call without credentials whose navigation ended on a page
\* that is not the authenticated landing page executes no extraction step,
\* and its coroutine ends with the credentials sentinel as its result, after
\* cleanup_browser has run.
C3_MissingCredentials ==
  \A t \in Tasks :
    task[t].op \in FacadeOps /\ "url_login" \in task[t].did /\ CredentialsMissing(t) =>
      /\ "extract" \notin task[t].did /\ ~InExtraction(t)
      /\ Ended(t) =>
           /\ task[t].result = Str(CredentialsRequired)
           /\ task[t].exc = NoExc
           /\ task[t].cleanups = 1

C3_Witness ==
  /\ Ended(1) /\ "url_login" \in task[1].did /\ CredentialsMissing(1)
  /\ task[1].result = Str(CredentialsRequired) /\ task[1].cleanups = 1

\* C4: the credentials sentinel is the result of a facade only when the
\* navigation ended on a page that is not the authenticated landing page and
\* credentials are missing; an acquisition that raised gives another string.
C4_SentinelOnlyWithoutCredentials ==
  \A t \in Tasks :
    Ended(t) /\ task[t].result = Str(CredentialsRequired) =>
      "url_login" \in task[t].did /\ CredentialsMissing(t)

\* C5 as stated: an init_browser call that follows an init_browser call with
\* no cleanup_browser between them returns the handle the first returned and
\* starts no process, launches no browser, navigates nowhere and fills no
\* field.
C5_SecondInitReuses ==
  \A t \in Tasks :
    task[t].op = "init" /\ task[t].prevOp = "init" =>
      /\ task[t].did \subseteq {"init_browser"}
      /\ Idle(t) => task[t].scraper = task[t].prevHandle

\* C5, amended: an init_browser call that follows, with no cleanup_browser
\* between them, an init_browser call that returned a scraper, returns that
\* scraper, starts no process, launches no browser, navigates nowhere, fills
\* no field, and changes neither the globals nor any browser object.
C5_ReuseAfterScraper ==
  [][\A t \in Tasks :
       /\ task'[t].op = "init" /\ task'[t].prevOp = "init"
       /\ task'[t].prevHandle # 0
       => /\ UNCHANGED <<globals, objs, open>>
          /\ task'[t].did \subseteq {"init_browser"}
          /\ task'[t].raised = "none"
          /\ task'[t].pc = "idle" => task'[t].scraper = task'[t].prevHandle]_vars

\* A second init_browser returned the scraper the first had returned.
C5_Witness ==
  /\ task[1].op = "init" /\ task[1].prevOp = "init" /\ Idle(1)
  /\ task[1].prevHandle # 0 /\ task[1].scraper = task[1].prevHandle
  /\ _scraper = task[1].scraper

\* C6: when cleanup_browser has returned, to a direct caller or to the
\* facade's finally block, it has raised no Exception and the five globals
\* are None.
C6_CleanupClears ==
  \A t \in Tasks :
    (task[t].op = "cleanup" /\ Idle(t)) \/ Ended(t) =>
      /\ AllCleared
      /\ task[t].raised # "Exception" /\ task[t].exc.kind # "Exception"

\* cleanup_browser returned after the close of the page raised.
C6_Witness ==
  /\ task[1].op = "cleanup" /\ Idle(1) /\ task[1].prevOp = "init"
  /\ task[1].closes = <<"page">> /\ 2 \in open

\* C7: when cleanup_browser reaches its finally block, the close of every
\* handle that is not None has been attempted, page first, then context,
\* then process, whatever close raised before.
C7_EveryCloseAttempted ==
  \A t \in Tasks :
    task[t].pc = "cl_finally" =>
      /\ _page # 0 => "page" \in SeqToSet(task[t].closes)
      /\ _context # 0 => "context" \in SeqToSet(task[t].closes)
      /\ _playwright # 0 => "stop" \in SeqToSet(task[t].closes)

LiveBrowsers == {h \in open : objs[h].kind = "context"}
C9_AtMostOneLiveSession == Cardinality(LiveBrowsers) <= 1

\* The records the in-page script of the call emitted.
Emitted(t) ==
  IF task[t].op = "course_list" THEN Len(CoursesScript(task[t].dom))
  ELSE Len(TimelineScript(task[t].dom))
EmptySentinel(t) ==
  IF task[t].op = "course_list" THEN Str(NoCoursesFound) ELSE Str(NoDeadlinesFound)

\* C10: an extraction call that returns, returns a string that is not
\* empty; when its in-page script was evaluated, it returns the pipeline's
\* empty-result sentinel if and only if the script emitted no record.
C10_EmptyResultSentinel ==
  \A t \in Tasks :
    task[t].op \in ScraperOps /\ Idle(t) /\ task[t].raised = "none" =>
      /\ task[t].ret.kind = "str" /\ task[t].ret.text # <<>>
      /\ "evaluate" \in task[t].did =>
           (task[t].ret = EmptySentinel(t) <=> Emitted(t) = 0)
      /\ task[t].ret \in {Str(NoCoursesFound), Str(NoDeadlinesFound)} =>
           "evaluate" \in task[t].did /\ Emitted(t) = 0

\* The timeline held items, none with a name link, and the call returned
\* the sentinel.
C10_Witness ==
  /\ task[1].op = "timeline" /\ Idle(1) /\ Len(task[1].dom) > 0
  /\ task[1].ret = Str(NoDeadlinesFound)

\* The lines of a display string: the pieces between its "\n" tokens.
RECURSIVE LinesOf(_)
LinesOf(s) ==
  IF \A k \in 1..Len(s) : s[k] # "\n" THEN <<s>>
  ELSE LET k == CHOOSE n \in 1..Len(s) :
                  s[n] = "\n" /\ \A j \in 1..(n - 1) : s[j] # "\n"
       IN <<SubSeq(s, 1, k - 1)>> \o LinesOf(SubSeq(s, k + 1, Len(s)))

\* The lines of what an extraction returned: an empty-result sentinel holds
\* no line.
ResultLines(v) ==
  IF v \in {Str(NoCoursesFound), Str(NoDeadlinesFound)} THEN <<>>
  ELSE LinesOf(v.text)

\* The items of a container that hold the name link.
HasNameLink(item) == item.nameLink # {}
Linked(dom) == SelectSeq(dom, HasNameLink)

\* An extraction call returned what the formatting of the script's records
\* gave.
Extracted(t) ==
  /\ task[t].op \in ScraperOps /\ Idle(t) /\ task[t].raised = "none"
  /\ "evaluate" \in task[t].did

\* C11: in both pipelines the result of an extraction holds one line for
\* each item of the container that has the name link and none for an item
\* that lacks it: N items of which k lack the link give N - k lines.
C11_LinklessItemsExcluded ==
  \A t \in Tasks :
    Extracted(t) => Len(ResultLines(task[t].ret)) = Len(Linked(task[t].dom))

\* The date, the time and the title the claim gives to a timeline item.
DateOf(item) ==
  IF item.group \in {"none", "first", "plain"} THEN <<"Unknown date">>
  ELSE Trim(item.heading)
TimeOf(item) == IF item.time = {} THEN <<>> ELSE Trim(The(item.time))
TitleOf(item) == Trim(The(item.nameLink))

\* C12: the result of the deadline extraction holds, for each item with a
\* name link and in document order, the line "<clock> <date> <time> -
\* <title>", where <date> is the trimmed text of the heading of the group
\* that precedes the item's list group, and "Unknown date" when the item has
\* no enclosing list group, no preceding sibling or no heading in it, and
\* <time> is empty when the time node is absent.
C12_DateOfPrecedingGroup ==
  \A t \in Tasks :
    Extracted(t) /\ task[t].op = "timeline" =>
      LET items == Linked(task[t].dom)
          lines == ResultLines(task[t].ret)
      IN /\ Len(lines) = Len(items)
         /\ \A i \in 1..Len(items) :
              /\ DateOf(items[i]) # <<>>
              /\ lines[i] = <<ClockPrefix>> \o DateOf(items[i]) \o <<" ">>
                            \o TimeOf(items[i]) \o <<" - ">> \o TitleOf(items[i])

\* Two events, the first without a date heading and without a time node, the
\* second under a dated group: the first line carries "Unknown date" and the
\* second the heading's text.
C12_Witness ==
  /\ Extracted(1) /\ task[1].op = "timeline" /\ Len(task[1].dom) = 2
  /\ task[1].dom[1].group = "plain" /\ task[1].dom[1].time = {}
  /\ task[1].dom[2].group = "dated"
  /\ task[1].ret = Str(<<ClockPrefix, "Unknown date", " ", " - ", "TP", "\n",
                         ClockPrefix, "Monday", " ", "23:59", " - ", "TP">>)

\* The reads of the data-display attribute in a trace, and the last of them.
IsRead(o) == o.call = "get_attribute"
LastRead(tr) ==
  IF SelectSeq(tr, IsRead) = <<>> THEN "none"
  ELSE SelectSeq(tr, IsRead)[Len(SelectSeq(tr, IsRead))].got
\* A step of the trace raised.
Raised(tr) == \E k \in 1..Len(tr) : tr[k].got = "exc"
\* force_summary_view, called by itself, has returned.
Viewed(t) == task[t].op = "summary_view" /\ Idle(t)

\* C13: force_summary_view raises nothing and returns a boolean, True if and
\* only if its last read of the container's data-display attribute gave
\* "summary"; it returns False when the container never became visible, when
\* no selector matches the toggle, when the summary option is absent, when
\* the attribute is not "summary" after the click, and when any step raised.
C13_TrueOnlyOnSummaryRead ==
  \A t \in Tasks :
    Viewed(t) =>
      LET i == task[t].answers
          tr == FsvTrace(PageOf(task[t].scraper), i)
      IN /\ task[t].raised = "none" /\ task[t].exc = NoExc
         /\ task[t].fsv \in {"True", "False"}
         /\ task[t].fsv = "True" <=> LastRead(tr) = "summary"
         /\ Raised(tr) => task[t].fsv = "False"
         /\ i.wait1 = "exc" => task[t].fsv = "False"
         /\ i.display1 # "summary" /\ i.wait1 = "ok" =>
              /\ i.primary = 0 /\ i.secondary = 0 => task[t].fsv = "False"
              /\ i.option = 0 => task[t].fsv = "False"
              /\ i.display2 # "summary" => task[t].fsv = "False"

\* The switch was made: the first read gave another mode, the option was
\* clicked and the second read gave "summary".
C13_Witness ==
  /\ Viewed(1) /\ task[1].fsv = "True"
  /\ task[1].answers.display1 = "card" /\ task[1].answers.display2 = "summary"
  /\ Len(FsvTrace(PageOf(task[1].scraper), task[1].answers)) = 9

\* C14: an extraction method hands no Exception to its caller; when the
\* handler of its try caught an Exception, raised by a wait for a container
\* or by the evaluation of the in-page script, the method has returned the
\* string "Error: " followed by the exception's message, and a method that
\* returned before its script was evaluated returned such a string or the
\* not-connected error.
C14_ExceptionBecomesErrorString ==
  \A t \in Tasks :
    task[t].op \in ScraperOps =>
      /\ task[t].raised # "Exception" /\ task[t].exc.kind # "Exception"
      /\ task[t].caught # NoExc =>
           /\ Idle(t) /\ task[t].raised = "none"
           /\ task[t].ret = Str(<<"Error: ">> \o task[t].caught.msg)
      /\ Idle(t) /\ task[t].raised = "none" /\ "extract" \in task[t].did
         /\ "evaluate" \notin task[t].did =>
           \/ task[t].caught # NoExc
           \/ task[t].ret = Str(NotConnected)

\* A wait of get_course_list timed out and the method returned the error
\* string.
C14_Witness ==
  /\ task[1].op = "course_list" /\ Idle(1)
  /\ task[1].caught = Exc(<<"TimeoutError">>)
  /\ task[1].ret = Str(<<"Error: ", "TimeoutError">>)

\* The positions inside cleanup_browser.
InCleanup(t) ==
  task[t].pc \in {"cl_enter", "cl_finally"}
                 \cup {IfLabels[k] : k \in 1..3} \cup {CloseLabels[k] : k \in 1..3}

\* C15: no step of the cleanup_browser a facade runs in its finally block,
\* whether a close succeeds or raises, changes the value the facade is
\* returning or the exception it is raising, and the cleanup adds no
\* Exception of its own: the coroutine ends with what the extraction, or the
\* missing scraper, gave.
C15_CleanupKeepsResult ==
  [][\A t \in Tasks :
       task[t].op \in FacadeOps /\ InCleanup(t) =>
         /\ task'[t].result = task[t].result
         /\ task'[t].exc = task[t].exc
         /\ task'[t].exc.kind # "Exception"]_vars

\* A facade whose extraction returned course lines ends with these lines
\* although the close of the page raised: the context was not closed.
C15_Witness ==
  /\ Ended(1) /\ task[1].op = "courses" /\ task[1].closes = <<"page">>
  /\ LiveBrowsers # {}
  /\ task[1].result = Str(<<BooksPrefix, "Maths", " (", "L3", ")">>)

\* C16: when a step of the login (a fill, the click, the wait for the idle
\* network) raised, credentials were given, init_browser goes on to create a
\* scraper on the open page and returns it, and a facade runs its extraction
\* on it: its result is what the extraction gave, never the credentials
\* sentinel.
C16_LoginFailureNotFatal ==
  \A t \in Tasks :
    "login_failed" \in task[t].did =>
      /\ ~CredentialsMissing(t)
      /\ task[t].pc \in {"ib_mk", "idle"} \/ task[t].op \in FacadeOps
      /\ task[t].result # Str(CredentialsRequired)
      /\ task[t].op = "init" /\ Idle(t) =>
           /\ task[t].raised = "none" /\ task[t].scraper # 0
           /\ objs[task[t].scraper].kind = "scraper"
           /\ PageOf(task[t].scraper) = _page /\ _page \in open
      /\ task[t].op \in FacadeOps /\ (Ended(t) \/ Idle(t)) =>
           "extract" \in task[t].did

\* The password field could not be filled, and the facade ended with the
\* lines its extraction read.
C16_Witness ==
  /\ Ended(1) /\ "login_failed" \in task[1].did
  /\ "ib_fill_email" \in task[1].did /\ "ib_fill_password" \notin task[1].did
  /\ "evaluate" \in task[1].did /\ task[1].result.text # <<>>

LoginLabels == {LoginSteps[i] : i \in 1..Len(LoginSteps)}

\* C17: when the URL after the navigation is the authenticated landing
\* page, init_browser makes no step of the login (no fill, no click, no wait
\* for the idle network) and returns a scraper, with or without credentials;
\* a facade then runs its extraction and its result is never the credentials
\* sentinel.
C17_LandingPageSkipsLogin ==
  \A t \in Tasks :
    "url_my" \in task[t].did =>
      /\ task[t].did \cap (LoginLabels \cup {"login_failed"}) = {}
      /\ task[t].pc \notin LoginLabels
      /\ task[t].result # Str(CredentialsRequired)
      /\ task[t].op = "init" /\ Idle(t) =>
           /\ task[t].raised = "none" /\ task[t].scraper # 0
           /\ objs[task[t].scraper].kind = "scraper"
           /\ _scraper = task[t].scraper
      /\ task[t].op \in FacadeOps /\ (Ended(t) \/ Idle(t)) =>
           "extract" \in task[t].did

\* init_browser, called without credentials, found the landing page and
\* returned a scraper.
C17_Witness ==
  /\ task[1].op = "init" /\ Idle(1) /\ "url_my" \in task[1].did
  /\ task[1].email = None /\ task[1].password = None
  /\ task[1].scraper # 0 /\ _scraper = task[1].scraper

\* A set_credentials call is between its two assignments.
Setting == \E t \in Tasks : task[t].pc \in {"sc_email", "sc_password"}

\* C18: a tool call passes to the scraper the arguments of the last
\* set_credentials call that returned, and (None, None) when there was none;
\* whenever no set_credentials call is in progress the stored e-mail and
\* password are those arguments, so that no step of a tool call or of the
\* scraper, however it ends, changes or clears them, and a set_credentials
\* call replaces both.
C18_ToolsPassStoredCredentials ==
  /\ \A t \in Tasks :
       task[t].op \in FacadeOps =>
         <<task[t].email, task[t].password>> = lastSet
  /\ ~Setting => <<_devinci_email, _devinci_password>> = lastSet

\* After set_credentials("login", "secret") a tool call logged in with them,
\* and its extraction returned.
C18_Witness ==
  /\ task[1].op \in FacadeOps /\ Idle(1) /\ task[1].prevOp = "set_credentials"
  /\ <<task[1].email, task[1].password>> = <<Str(<<"login">>), Str(<<"secret">>)>>
  /\ lastSet = <<Str(<<"login">>), Str(<<"secret">>)>>
  /\ "ib_fill_password" \in task[1].did /\ "evaluate" \in task[1].did

AfterSummaryView == {"gc_container", "gc_loader", "gc_evaluate"}

\* C20: get_course_list goes on to the wait for the container whatever
\* force_summary_view returned, evaluates its in-page script only after
\* force_summary_view has returned, and, when that returned False, still
\* goes on to the evaluation unless a step fails, hands no Exception to its
\* caller and returns a string that is not empty.
C20_ExtractionAfterSummaryView ==
  [][\A t \in Tasks :
       task[t].op = "course_list" =>
         /\ task[t].pc = "gc_fsv" =>
              task'[t].pc = "gc_container" /\ task'[t].fsv \in {"True", "False"}
         /\ "evaluate" \in task'[t].did /\ "evaluate" \notin task[t].did =>
              task[t].pc = "gc_evaluate" /\ task[t].fsv \in {"True", "False"}
         /\ task[t].pc \in AfterSummaryView /\ task[t].fsv = "False" =>
              /\ task'[t].fsv = "False"
              /\ task'[t].raised # "Exception"
              /\ task'[t].pc \in AfterSummaryView \cup {"idle"}
              /\ task'[t].pc = "idle" /\ task'[t].raised = "none" =>
                   /\ task'[t].ret.kind = "str" /\ task'[t].ret.text # <<>>
                   /\ task'[t].caught = NoExc => "evaluate" \in task'[t].did]_vars

\* force_summary_view returned False, the script was evaluated all the same
\* and get_course_list returned the line it read.
C20_Witness ==
  /\ task[1].op = "course_list" /\ Idle(1) /\ task[1].fsv = "False"
  /\ "evaluate" \in task[1].did
  /\ task[1].ret = Str(<<BooksPrefix, "Maths">>)

\* C21: in both pipelines the wait for the loading indicator to go, whether
\* the indicator goes or the wait times out, leaves the pipeline at the
\* evaluation of its in-page script: unless an exception that is no
\* Exception ends the call, the step taken at the loader wait returns
\* nothing to the caller.
C21_LoaderTimeoutRecovered ==
  [][\A t \in Tasks :
       /\ task[t].op \in ScraperOps
       /\ task[t].pc \in {"gc_loader", "tl_loader"}
       /\ task'[t].raised = "none"
       => task'[t].pc \in {"gc_evaluate", "tl_evaluate"}]_vars

\* C22: no step of get_course_list, of get_timeline_events or of the
\* force_summary_view inside get_course_list, whether it succeeds or fails,
\* changes one of the five session references, creates a browser object, or
\* closes the page, the context or the process.
C22_ExtractionKeepsSession ==
  [][\A t \in Tasks :
       InExtraction(t) => UNCHANGED <<globals, objs, open>>]_vars

\* An extraction that ended in the pipeline's handler left the session as
\* init_browser made it: the references set and the page open.
C22_Witness ==
  /\ task[1].op \in ScraperOps /\ Idle(1) /\ task[1].caught # NoExc
  /\ _scraper = 4 /\ _page = 3 /\ _context = 2 /\ _playwright = 1
  /\ open = {1, 2, 3}

\* C23: an init_browser call that finds the login page with the e-mail or
\* the password None or empty fills no field, raises nothing and returns
\* None with _scraper None, while the process, the context and the page it
\* opened stay open; and no step other than a close of cleanup_browser takes
\* a handle out of the open ones.
C23_MissingCredentialsOutcome ==
  [][/\ \A t \in Tasks :
          /\ task'[t].op = "init" /\ "url_login" \in task'[t].did
          /\ ~Truthy(task'[t].email) \/ ~Truthy(task'[t].password)
          => /\ task'[t].did \cap LoginLabels = {}
             /\ task'[t].pc = "idle" /\ task'[t].raised = "none"
             /\ task'[t].scraper = 0 /\ _scraper' = 0
             /\ _playwright' # 0 /\ _context' # 0 /\ _page' # 0
             /\ {_playwright', _context', _page'} \subseteq open'
     /\ (\E h \in open : h \notin open') =>
          \E t \in Tasks : task[t].pc \in {CloseLabels[k] : k \in 1..3}]_vars

\* init_browser, called with an empty e-mail, returned None and left its
\* browser open.
C23_Witness ==
  /\ task[1].op = "init" /\ Idle(1) /\ "url_login" \in task[1].did
  /\ task[1].email = Str(<<>>) /\ task[1].password = Str(<<"secret">>)
  /\ task[1].scraper = 0 /\ _scraper = 0
  /\ {_playwright, _context, _page} \subseteq open

\* The items of a courses container the script emits a record for, and the
\* parts of the line the claim gives to such an item.
HasColumn(item) == item.col
Summarised(dom) == SelectSeq(dom, HasColumn)
NamePart(item) ==
  IF item.nameLink = {} THEN <<"Unknown">> ELSE Trim(The(item.nameLink))
CategoryPart(item) ==
  IF item.categoryname = {} THEN <<>>
  ELSE IF Trim(The(item.categoryname)) \in {<<>>, <<"N/A">>} THEN <<>>
  ELSE <<" (">> \o Trim(The(item.categoryname)) \o <<")">>
ProgressPart(item) ==
  IF item.progress = {} THEN <<>>
  ELSE IF Trim(RemoveFirst(The(item.progress), Termine)) = <<>> THEN <<>>
  ELSE <<" - ">> \o Trim(RemoveFirst(The(item.progress), Termine))

\* C24: the result of the course extraction holds one line for each record
\* the script emitted, in the order of emission; a line is the prefix and
\* the name, then " (<category>)" only when the item has a category, then
\* " - <progress>" only when its progress text is not empty; an item without
\* category or without progress adds nothing for it, and no line holds the
\* placeholder "N/A".
C24_CourseLineShape ==
  \A t \in Tasks :
    Extracted(t) /\ task[t].op = "course_list" =>
      LET items == Summarised(task[t].dom)
          lines == ResultLines(task[t].ret)
      IN /\ Len(lines) = Len(items)
         /\ \A i \in 1..Len(items) :
              /\ lines[i] = <<BooksPrefix>> \o NamePart(items[i])
                            \o CategoryPart(items[i]) \o ProgressPart(items[i])
              /\ " (" \in SeqToSet(lines[i]) => items[i].categoryname # {}
              /\ " - " \in SeqToSet(lines[i]) => items[i].progress # {}
              /\ "N/A" \notin SeqToSet(lines[i])

\* Two courses, the first without category and progress, the second with
\* both.
C24_Witness ==
  /\ Extracted(1) /\ task[1].op = "course_list" /\ Len(task[1].dom) = 2
  /\ task[1].dom[1].categoryname = {} /\ task[1].dom[1].progress = {}
  /\ task[1].ret = Str(<<BooksPrefix, "Maths", "\n",
                         BooksPrefix, "Algo", " (", "L3", ")", " - ", "50%">>)

\* The positions of a trace where force_summary_view clicks, and where it
\* reads the data-display attribute.
ClicksOn(tr, on) == {k \in 1..Len(tr) : tr[k].call = "click" /\ tr[k].on = on}
Reads(tr) == {k \in 1..Len(tr) : tr[k].call = "get_attribute"}

\* C25: when the first read of the mode is not "summary", force_summary_view
\* counts the primary selector and clicks one toggle, the secondary one if
\* and only if the primary selector matched nothing; it clicks the summary
\* option only after counting at least one, and it reads the mode a second
\* time only directly after a wait for the container that succeeded, itself
\* directly after the click on the summary option that succeeded.
C25_ToggleFallbackAndReread ==
  \A t \in Tasks :
    Viewed(t) =>
      LET i == task[t].answers
          tr == FsvTrace(PageOf(task[t].scraper), i)
      IN /\ i.wait1 = "ok" /\ i.display1 # "summary" =>
              /\ Cardinality(ClicksOn(tr, "primary") \cup ClicksOn(tr, "secondary")) = 1
              /\ ClicksOn(tr, "secondary") # {} <=> i.primary = 0
              /\ ClicksOn(tr, "primary") # {} <=> i.primary > 0
         /\ i.wait1 # "ok" \/ i.display1 = "summary" =>
              \A k \in 1..Len(tr) : tr[k].call \notin {"click", "count"}
         /\ ClicksOn(tr, "summary_option") # {} =>
              /\ i.option > 0
              /\ \A k \in ClicksOn(tr, "summary_option") :
                   tr[k - 1] = Op("count", "summary_option", "1")
         /\ Cardinality(Reads(tr)) <= 2
         /\ \A k \in Reads(tr) :
              k > 2 =>
                /\ tr[k - 1] = Op("wait_for", "courses_view", "ok")
                /\ tr[k - 2] = Op("click", "summary_option", "ok")

\* The primary selector matched nothing, the secondary toggle was clicked,
\* the summary option was clicked and the mode was read again.
C25_Witness ==
  /\ Viewed(1) /\ task[1].answers.primary = 0 /\ task[1].answers.secondary = 1
  /\ ClicksOn(FsvTrace(PageOf(task[1].scraper), task[1].answers), "secondary") = {4}
  /\ Reads(FsvTrace(PageOf(task[1].scraper), task[1].answers)) = {2, 9}

\* C26: when every awaited call ends, with success or with a failure, a
\* facade call in progress eventually returns to its caller, and at that
\* moment the session references are cleared.
C26_FacadeTerminates ==
  \A t \in Tasks :
    (~Idle(t)) ~> (/\ Idle(t) /\ AllCleared
                   /\ "init_browser" \in task[t].did => task[t].cleanups = 1)

\* A facade call went through launch, login, extraction and cleanup, and
\* returned with every handle closed.
C26_Witness ==
  /\ task[1].op \in FacadeOps /\ Idle(1) /\ task[1].raised = "none"
  /\ {"launch", "ib_networkidle", "evaluate"} \subseteq task[1].did
  /\ task[1].closes = <<"page", "context", "stop">>
  /\ AllCleared /\ open = {}

\* C27: when init_browser and cleanup_browser are called one after the
\* other, a step of init_browser that stores a new process, context or page
\* in a session reference never replaces a handle that is still open: a
\* launch starts only when the earlier launch has been released.
C27_NoLaunchOverOpenHandles ==
  [][/\ _playwright' # _playwright /\ _playwright' # 0 => _playwright \notin open
     /\ _context' # _context /\ _context' # 0 => _context \notin open
     /\ _page' # _page /\ _page' # 0 => _page \notin open]_vars

\* C28: while a chain that took the shared scraper at the reuse test of
\* init_browser is inside its extraction, the page of that scraper is open
\* and the scraper is still the session's: the finally block of the other
\* chain has neither closed the page nor cleared the references.
C28_NoCloseUnderExtraction ==
  \A t \in Tasks :
    /\ task[t].op \in FacadeOps /\ InExtraction(t)
    /\ "start" \notin task[t].did
    => /\ PageOf(task[t].scraper) \in open
       /\ _scraper = task[t].scraper

\* The tools an invocation has executed, and the words of a response that
\* name a tool as the claim reads it.
RanNames(t) == [k \in 1..Len(task[t].ran) |-> task[t].ran[k][1]]
Names(response) == {n \in AgentTools : In(n, response)}
\* The loop of invoke is over.
LoopDone(t) ==
  /\ task[t].op = "invoke" /\ task[t].tool_calls = <<>>
  /\ \/ task[t].pc = "ag_tools"
     \/ Idle(t) /\ "llm_failed" \notin task[t].did
     \/ Idle(t) /\ task[t].response # <<>>

\* C29: an invocation executes each tool at most once, get_courses before
\* get_deadlines; when its loop is over it has executed exactly the tools
\* the thinking response names, if it names one, and otherwise the one tool
\* its keywords give, get_deadlines for a deadline keyword, else get_courses
\* for a course keyword, else none; a tool that raised an Exception has the
\* string "Error executing tool: <message>" as its result, and the only
\* Exception that leaves invoke is one of the language model.
C29_AgentRunsNamedTools ==
  \A t \in Tasks :
    task[t].op = "invoke" =>
      LET names == RanNames(t)
          r == task[t].response
      IN /\ Len(names) <= 2
         /\ \A j, k \in 1..Len(names) : j # k => names[j] # names[k]
         /\ Len(names) = 2 => names = <<"get_courses", "get_deadlines">>
         /\ DOMAIN task[t].all_results = SeqToSet(names)
         /\ \A k \in 1..Len(names) :
              task[t].ran[k][2] = "exc" =>
                task[t].all_results[names[k]]
                  = Str(<<"Error executing tool: ", "TimeoutError">>)
         /\ task[t].raised = "Exception" => "llm_failed" \in task[t].did
         /\ LoopDone(t) =>
              /\ Names(r) # {} => SeqToSet(names) = Names(r)
              /\ Names(r) = {} =>
                   /\ Len(names) <= 1
                   /\ AnyIn(DeadlineKeywords, LowerAll(r)) =>
                        names = <<"get_deadlines">>
                   /\ ~AnyIn(DeadlineKeywords, LowerAll(r))
                      /\ AnyIn(CourseKeywords, LowerAll(r)) =>
                        names = <<"get_courses">>
                   /\ ~AnyIn(DeadlineKeywords \cup CourseKeywords, LowerAll(r)) =>
                        names = <<>>

\* The response named both tools; get_courses raised, get_deadlines ran after
\* it, and invoke returned its final response.
C29_Witness ==
  /\ task[1].op = "invoke" /\ Idle(1) /\ task[1].raised = "none"
  /\ task[1].response = <<"get_deadlines", "get_courses">>
  /\ task[1].ran = <<<<"get_courses", "exc">>, <<"get_deadlines", "ok">>>>
  /\ task[1].ret = Str(<<"final response">>)

====
